---- MODULE Spec2Model ----
(***************************************************************************)
(* NiimbotHeadlessSerialClient (serial session of the label printer):      *)
(* connect / disconnect / isConnected / sendRaw, the close observer of the *)
(* serial port and the exclusive gate (mutex) of outgoing writes.          *)
(*                                                                         *)
(* The program runs on one event loop: every action below is one run of    *)
(* code between two suspension points (await, timer, I/O callback).        *)
(* The serial port library and the negotiation collaborator are the        *)
(* environment: a port opens or fails to open, a requested close completes *)
(* later and then fires the "close" notification once, the device may go   *)
(* away at any time, negotiation and info fetch either resolve or reject.  *)
(*                                                                         *)
(* Further parts: the heartbeat timer that disconnect() stops, the read    *)
(* side (the readable observer and the dataReady() drain loop), and the    *)
(* HTTP worker with its module-level client under concurrent requests,     *)
(* and the CLI commands that connect, work and disconnect.                 *)
(***************************************************************************)
EXTENDS Integers, Sequences, FiniteSets, TLC

\* ------------------------------------------------------------- bounds
\* SerialPort objects created over the life of one client
MaxHandles == 2
\* sendRaw() calls issued over the life of one client
MaxSends == 3
\* packetIntervalMs, in clock ticks
PacketIntervalMs == 2
\* chunks the device sends over the life of one port
MaxChunks == 3
\* connect requests the HTTP worker receives
MaxRequests == 3

Handles == 1..MaxHandles
SendIds == 1..MaxSends
Ports == {"COM1", "COM2"}
NoPort == "undefined"
NoDevice == 0
NoResult == "undefined"
\* what initialNegotiate() may leave in info.connectResult
NegotiateResults == {NoResult, "Connected"}

VARIABLES
    portName,         \* this.portName
    device,           \* this.device: a handle, or NoDevice
    isOpen,           \* this.isOpen
    port,             \* per SerialPort object: its state and path
    cpc,              \* position of the connect() call
    chandle,          \* the SerialPort object of the connect() call (_port)
    cerr,             \* the error caught by connect() (e)
    cres,             \* how the last connect() call ended
    connectResult,    \* this.info.connectResult
    connectEvents,    \* "connect" events emitted, in order
    disconnectEvents, \* "disconnect" events emitted, per closed SerialPort
    spc,              \* position of each sendRaw() call
    force,            \* its force argument
    openAtCall,       \* isConnected() at the moment it was issued
    slept,            \* ticks it has spent in Utils.sleep
    queue,            \* this.mutex: callers waiting, in arrival order
    holder,           \* this.mutex: the call inside runExclusive, or 0
    writes,           \* device.write calls, in order: the sendRaw() call of each
    wroteClosed,      \* per sendRaw() call: it wrote to a port that had closed
    sinceWrite,       \* ticks since the last gated write (saturating)
    dpc,              \* position of the caller's disconnect() call
    heartbeat,        \* the heartbeat timer of the client is running
    arrived,          \* chunks the port has received from the device so far
    rx,               \* chunks buffered in the port, not read yet, oldest first
    readablePending,  \* a "readable" notification of the port awaits delivery
    draining,         \* dataReady() calls that have begun and not returned
    lastRead,         \* what the last this.device.read() did
    decoded,          \* chunks passed to processRawPacket, in order
    client,           \* HTTP worker: let client (0 is null, else the instance)
    inst,             \* HTTP worker: per client instance, where its session is
    rpc,              \* HTTP worker: position of each connect request
    kcmd,             \* CLI: the command that runs ("none" before it starts)
    kopts,            \* CLI: which of its options are set
    kpc,              \* CLI: position of the command
    kerr,             \* CLI: the error on its way out of a try block
    kstatus,          \* CLI: let status
    kport,            \* CLI: the transport of the command's client
    kdisconnects,     \* CLI: client.disconnect() calls of the command
    kexit             \* CLI: how the command ended ("running" until then)

lifecycle == <<portName, device, isOpen, port, cpc, chandle, cerr, cres,
               connectResult, connectEvents, disconnectEvents, dpc, heartbeat>>
sending == <<spc, force, openAtCall, slept, queue, holder, writes, wroteClosed,
             sinceWrite>>
reading == <<arrived, rx, readablePending, draining, lastRead, decoded>>
worker == <<client, inst, rpc>>
cli == <<kcmd, kopts, kpc, kerr, kstatus, kport, kdisconnects, kexit>>
vars == <<lifecycle, sending, reading, worker, cli>>

Min(a, b) == IF a < b THEN a ELSE b

\* ------------------------------------------------------------ isConnected
isConnected == isOpen

\* ------------------------------------------------------------ event loop
\* disconnect() suspends nowhere: the continuation of an await
\* this.disconnect() is a microtask, and the event loop runs it before it
\* delivers any I/O or timer callback
MicrotaskPending == dpc = "called" \/ cpc \in {"disconnecting", "rethrow"}

\* (a dataReady() that awaited between its reads)
DrainYields_Async == TRUE

\* dataReady() is a plain method with a while (true) loop around a
\* synchronous read(): it suspends nowhere
DrainYields == FALSE

\* a callback that runs to its end holds the event loop: no other callback
\* is delivered while a dataReady() call is under way
DrainBusy == draining > 0 /\ ~DrainYields

CallbackReady == ~MicrotaskPending /\ ~DrainBusy

\* ------------------------------------------------------------ Init
Init ==
    /\ portName = NoPort
    /\ device = NoDevice
    /\ isOpen = FALSE
    /\ port = [h \in Handles |-> [state |-> "none", path |-> NoPort]]
    /\ cpc = "idle"
    /\ chandle = NoDevice
    /\ cerr = NoResult
    /\ cres = NoResult
    /\ connectResult = NoResult
    /\ connectEvents = <<>>
    /\ disconnectEvents = [h \in Handles |-> 0]
    /\ spc = [i \in SendIds |-> "new"]
    /\ force = [i \in SendIds |-> FALSE]
    /\ openAtCall = [i \in SendIds |-> FALSE]
    /\ slept = [i \in SendIds |-> 0]
    /\ queue = <<>>
    /\ holder = 0
    /\ writes = <<>>
    /\ wroteClosed = [i \in SendIds |-> FALSE]
    /\ sinceWrite = PacketIntervalMs
    /\ dpc = "idle"
    /\ heartbeat = FALSE
    /\ arrived = 0
    /\ rx = <<>>
    /\ readablePending = FALSE
    /\ draining = 0
    /\ lastRead = "none"
    /\ decoded = <<>>
    /\ client = 0
    /\ inst = [c \in 1..MaxRequests |-> "none"]
    /\ rpc = [r \in 1..MaxRequests |-> "new"]
    /\ kcmd = "none"
    /\ kopts = [sized |-> FALSE, fitted |-> FALSE, task |-> FALSE]
    /\ kpc = "idle"
    /\ kerr = NoResult
    /\ kstatus = 1
    /\ kport = "none"
    /\ kdisconnects = 0
    /\ kexit = "running"

\* ------------------------------------------------------------ setPort
setPort(p) ==
    /\ portName' = p
    /\ UNCHANGED <<device, isOpen, port, cpc, chandle, cerr, cres,
                   connectResult, connectEvents, disconnectEvents, dpc, heartbeat>>
    /\ UNCHANGED <<sending, reading, worker, cli>>

\* ------------------------------------------------------------ disconnect
\* (a close() that closed a port again that had already closed)
RequestClose_Again(ports, h) ==
    IF h # NoDevice /\ ports[h].state \in {"open", "closed"}
    THEN [ports EXCEPT ![h].state = "closing"]
    ELSE ports

\* this.device?.close(): nothing without a device; an open port starts
\* closing and the notification comes later (closeNotify); on a port that
\* is not open (any more) close() closes nothing
RequestClose(ports, h) ==
    IF h # NoDevice /\ ports[h].state = "open"
    THEN [ports EXCEPT ![h].state = "closing"]
    ELSE ports

\* the body of disconnect(): this.stopHeartbeat() clears the heartbeat
\* timer, then this.device?.close()
stopHeartbeat == FALSE

disconnectBody(ports) == RequestClose(ports, device)

\* a caller's await client.disconnect(): the body runs at once ...
disconnectCall ==
    /\ dpc = "idle"
    /\ dpc' = "called"
    /\ port' = disconnectBody(port)
    /\ heartbeat' = stopHeartbeat
    /\ UNCHANGED <<portName, device, isOpen, cpc, chandle, cerr, cres,
                   connectResult, connectEvents, disconnectEvents>>
    /\ UNCHANGED <<sending, reading, worker, cli>>

\* ... and its promise resolves: the caller's await returns
disconnectReturn ==
    /\ dpc = "called"
    /\ dpc' = "idle"
    /\ UNCHANGED <<portName, device, isOpen, port, cpc, chandle, cerr, cres,
                   connectResult, connectEvents, disconnectEvents, heartbeat>>
    /\ UNCHANGED <<sending, reading, worker, cli>>

\* ------------------------------------------------------------ heartbeat
\* the periodic health check of the protocol collaborator is started on
\* the client
startHeartbeat ==
    /\ ~heartbeat
    /\ heartbeat' = TRUE
    /\ UNCHANGED <<portName, device, isOpen, port, cpc, chandle, cerr, cres,
                   connectResult, connectEvents, disconnectEvents, dpc>>
    /\ UNCHANGED <<sending, reading, worker, cli>>

\* client.on("heartbeatfailed", ...) with failedAttempts >= maxFails:
\* client.disconnect(), not awaited
heartbeatFailed ==
    /\ heartbeat
    /\ CallbackReady
    /\ port' = disconnectBody(port)
    /\ heartbeat' = stopHeartbeat
    /\ UNCHANGED <<portName, device, isOpen, cpc, chandle, cerr, cres,
                   connectResult, connectEvents, disconnectEvents, dpc>>
    /\ UNCHANGED <<sending, reading, worker, cli>>

\* ------------------------------------------------------------ close observer
\* _port.on("close", ...): this.isOpen = false
isOpenOnClose == FALSE

\* (a close observer that emitted nothing)
EmitDisconnect_None(ev, h) == ev

\* _port.on("close", ...): this.emit("disconnect", new DisconnectEvent())
EmitDisconnect(ev, h) == [ev EXCEPT ![h] = @ + 1]

\* the device goes away (cable removed): the port closes on its own
deviceLost(h) ==
    /\ port[h].state = "open"
    /\ port' = [port EXCEPT ![h].state = "closing"]
    /\ UNCHANGED <<portName, device, isOpen, cpc, chandle, cerr, cres,
                   connectResult, connectEvents, disconnectEvents, dpc, heartbeat>>
    /\ UNCHANGED <<sending, reading, worker, cli>>

\* a close completes: the port is closed and its "close" notification fires
closeNotify(h) ==
    /\ port[h].state = "closing"
    /\ CallbackReady
    /\ port' = [port EXCEPT ![h].state = "closed"]
    /\ isOpen' = isOpenOnClose
    /\ disconnectEvents' = EmitDisconnect(disconnectEvents, h)
    /\ UNCHANGED <<portName, device, cpc, chandle, cerr, cres,
                   connectResult, connectEvents, dpc, heartbeat>>
    /\ UNCHANGED <<sending, reading, worker, cli>>

\* ------------------------------------------------------------ connect
FreeHandles == {h \in Handles : port[h].state = "none"}
NextHandle == CHOOSE h \in FreeHandles : \A g \in FreeHandles : h <= g

\* connect(): await this.disconnect()
connectCall ==
    /\ cpc = "idle"
    /\ FreeHandles # {}
    /\ cpc' = "disconnecting"
    /\ cres' = NoResult
    /\ port' = disconnectBody(port)
    /\ heartbeat' = stopHeartbeat
    /\ UNCHANGED <<portName, device, isOpen, chandle, cerr,
                   connectResult, connectEvents, disconnectEvents, dpc>>
    /\ UNCHANGED <<sending, reading, worker, cli>>

\* if (!this.portName) throw new Error("Port not set")
connectPortNotSet ==
    /\ cpc = "disconnecting"
    /\ portName = NoPort
    /\ cpc' = "idle"
    /\ cres' = "Port not set"
    /\ UNCHANGED <<portName, device, isOpen, port, chandle, cerr,
                   connectResult, connectEvents, disconnectEvents, dpc, heartbeat>>
    /\ UNCHANGED <<sending, reading, worker, cli>>

\* serialOpenAsync(this.portName): new SerialPort({path, ...}); p.open(...)
serialOpenAsync ==
    /\ cpc = "disconnecting"
    /\ portName # NoPort
    /\ cpc' = "opening"
    /\ chandle' = NextHandle
    /\ port' = [port EXCEPT ![NextHandle] = [state |-> "opening", path |-> portName]]
    /\ UNCHANGED <<portName, device, isOpen, cerr, cres,
                   connectResult, connectEvents, disconnectEvents, dpc, heartbeat>>
    /\ UNCHANGED <<sending, reading, worker, cli>>

\* (a connect() that had set isOpen before the port was known to be open)
isOpenOnOpenError_Set == TRUE

\* a rejected await serialOpenAsync(...) leaves connect() before
\* this.isOpen = true
isOpenOnOpenError == isOpen

\* p.open((err) => reject(err)): connect() throws the open error
openFailed ==
    /\ cpc = "opening"
    /\ CallbackReady
    /\ port' = [port EXCEPT ![chandle].state = "failed"]
    /\ cpc' = "idle"
    /\ cres' = "Open failed"
    /\ chandle' = NoDevice
    /\ isOpen' = isOpenOnOpenError
    /\ UNCHANGED <<portName, device, cerr,
                   connectResult, connectEvents, disconnectEvents, dpc, heartbeat>>
    /\ UNCHANGED <<sending, reading, worker, cli>>

\* (a connect() that left isOpen alone until negotiation is over)
isOpenOnOpened_Late == isOpen

\* this.isOpen = true, right after the port has opened
isOpenOnOpened == TRUE

\* p.open((err) => resolve(p)); then this.isOpen = true, the observers are
\* installed, this.device = _port, and initialNegotiate() starts
opened ==
    /\ cpc = "opening"
    /\ CallbackReady
    /\ port' = [port EXCEPT ![chandle].state = "open"]
    /\ isOpen' = isOpenOnOpened
    /\ device' = chandle
    /\ cpc' = "negotiating"
    /\ UNCHANGED <<portName, chandle, cerr, cres,
                   connectResult, connectEvents, disconnectEvents, dpc, heartbeat>>
    /\ UNCHANGED <<sending, reading, worker, cli>>

\* await this.initialNegotiate() resolves; fetchPrinterInfo() starts
negotiated(r) ==
    /\ cpc = "negotiating"
    /\ CallbackReady
    /\ connectResult' = r
    /\ cpc' = "fetching"
    /\ UNCHANGED <<portName, device, isOpen, port, chandle, cerr, cres,
                   connectEvents, disconnectEvents, dpc, heartbeat>>
    /\ UNCHANGED <<sending, reading, worker, cli>>

\* (a catch block without this.isOpen = false)
isOpenOnCatch_Kept == isOpen

\* catch (e) { this.isOpen = false; ... }
isOpenOnCatch == FALSE

\* catch (e) { this.isOpen = false; await this.disconnect(); ... }
catch(e) ==
    /\ isOpen' = isOpenOnCatch
    /\ port' = disconnectBody(port)
    /\ cerr' = e
    /\ cpc' = "rethrow"
    /\ heartbeat' = stopHeartbeat
    /\ UNCHANGED <<portName, device, chandle, cres,
                   connectResult, connectEvents, disconnectEvents, dpc>>
    /\ UNCHANGED <<sending, reading, worker, cli>>

\* await this.initialNegotiate() rejects
negotiateFailed ==
    /\ cpc = "negotiating"
    /\ CallbackReady
    /\ catch("Handshake failed")

\* await this.fetchPrinterInfo() rejects
fetchFailed ==
    /\ cpc = "fetching"
    /\ CallbackReady
    /\ catch("Info fetch failed")

\* catch (e) { ...; throw e; }
ThrownError == cerr

connectThrow ==
    /\ cpc = "rethrow"
    /\ cpc' = "idle"
    /\ cres' = ThrownError
    /\ chandle' = NoDevice
    /\ cerr' = NoResult
    /\ UNCHANGED <<portName, device, isOpen, port,
                   connectResult, connectEvents, disconnectEvents, dpc, heartbeat>>
    /\ UNCHANGED <<sending, reading, worker, cli>>

\* const result: ConnectionInfo = { deviceName, result }
ConnectionInfo ==
    [deviceName |-> <<"Serial", portName>>,
     result |-> IF connectResult = NoResult THEN "FirmwareErrors" ELSE connectResult]

\* this.emit("connect", new ConnectEvent(result))
EmitConnect(ev) == Append(ev, ConnectionInfo)

\* await this.fetchPrinterInfo() resolves; connect() emits and returns
connected ==
    /\ cpc = "fetching"
    /\ CallbackReady
    /\ connectEvents' = EmitConnect(connectEvents)
    /\ cpc' = "idle"
    /\ cres' = "ok"
    /\ chandle' = NoDevice
    /\ UNCHANGED <<portName, device, isOpen, port, cerr,
                   connectResult, disconnectEvents, dpc, heartbeat>>
    /\ UNCHANGED <<sending, reading, worker, cli>>

\* ------------------------------------------------------------ sendRaw
\* const send = async () => { if (!this.isConnected()) throw new
\* Error("Not connected"); await Utils.sleep(this.packetIntervalMs); ...
\* send() up to its first suspension: it throws, or it starts to sleep
sendStart(pcs, i) ==
    [pcs EXCEPT ![i] = IF isConnected THEN "sleeping" ELSE "Not connected"]

NextSend == CHOOSE i \in SendIds : spc[i] = "new" /\ \A j \in SendIds : spc[j] = "new" => i <= j

\* sendRaw(data, true): await send()
sendRawForce ==
    /\ \E i \in SendIds : spc[i] = "new"
    /\ force' = [force EXCEPT ![NextSend] = TRUE]
    /\ openAtCall' = [openAtCall EXCEPT ![NextSend] = isConnected]
    /\ spc' = sendStart(spc, NextSend)
    /\ slept' = [slept EXCEPT ![NextSend] = 0]
    /\ UNCHANGED <<queue, holder, writes, wroteClosed, sinceWrite>>
    /\ UNCHANGED <<lifecycle, reading, worker, cli>>

\* (a mutex that served its last waiter first)
MutexNext_Lifo(q) == q[Len(q)]

\* the mutex serves its waiters first come, first served
MutexNext(q) == Head(q)

\* (a mutex that admitted a caller while another is inside)
MutexFree_Always == TRUE

\* the mutex admits a caller only when none is inside runExclusive
MutexFree == holder = 0

Without(q, i) == SelectSeq(q, LAMBDA x : x # i)
Waiting(q) == {q[k] : k \in 1..Len(q)}

\* sendRaw(data): await this.mutex.runExclusive(send). A free mutex admits
\* the caller in the same run of the event loop (a microtask): send() runs
\* up to its sleep, or throws and the mutex is free again. A held mutex
\* makes the caller wait.
sendRawGated ==
    /\ \E i \in SendIds : spc[i] = "new"
    /\ force' = [force EXCEPT ![NextSend] = FALSE]
    /\ openAtCall' = [openAtCall EXCEPT ![NextSend] = isConnected]
    /\ IF MutexFree
       THEN /\ spc' = sendStart(spc, NextSend)
            /\ slept' = [slept EXCEPT ![NextSend] = 0]
            /\ holder' = IF isConnected THEN NextSend ELSE holder
            /\ UNCHANGED queue
       ELSE /\ spc' = [spc EXCEPT ![NextSend] = "queued"]
            /\ queue' = Append(queue, NextSend)
            /\ UNCHANGED <<slept, holder>>
    /\ UNCHANGED <<writes, wroteClosed, sinceWrite>>
    /\ UNCHANGED <<lifecycle, reading, worker, cli>>

\* (a runExclusive that kept the mutex when send() threw: the first waiter
\* is admitted, throws, and the mutex stays taken)
RejectAll_Leak(q, pcs) ==
    [queue |-> Tail(q), holder |-> Head(q),
     spc |-> [pcs EXCEPT ![Head(q)] = "Not connected"]]

\* on a client that is not connected the admitted waiter's send() throws,
\* runExclusive releases the mutex on the way out, and so it goes for all
\* the waiters behind it
RejectAll(q, pcs) ==
    [queue |-> <<>>, holder |-> 0,
     spc |-> [j \in SendIds |-> IF j \in Waiting(q) THEN "Not connected" ELSE pcs[j]]]

\* runExclusive releases the mutex, which admits its next waiter in the
\* same run of the event loop: that waiter's send() starts to sleep, or,
\* on a client that is not connected, throws and releases the mutex in
\* turn, and so do all the waiters behind it.
Release(q, pcs) ==
    IF q = <<>>
    THEN [queue |-> q, holder |-> 0, spc |-> pcs]
    ELSE IF isConnected
    THEN [queue |-> Without(q, MutexNext(q)), holder |-> MutexNext(q),
          spc |-> sendStart(pcs, MutexNext(q))]
    ELSE RejectAll(q, pcs)

\* (a send() that skipped the sleep when force is set)
SleepOver_ForceSkips(i) == force[i] \/ slept[i] >= PacketIntervalMs

\* await Utils.sleep(this.packetIntervalMs) is over
SleepOver(i) == slept[i] >= PacketIntervalMs

\* this.device!.write(Buffer.from(data)); emit "rawpacketsent"; a gated
\* send then leaves runExclusive
written(i) ==
    /\ spc[i] = "sleeping"
    /\ CallbackReady
    /\ SleepOver(i)
    /\ writes' = Append(writes, i)
    /\ wroteClosed' = [wroteClosed EXCEPT ![i] = port[device].state = "closed"]
    /\ IF force[i]
       THEN /\ spc' = [spc EXCEPT ![i] = "done"]
            /\ UNCHANGED <<queue, holder, sinceWrite>>
       ELSE /\ spc' = Release(queue, [spc EXCEPT ![i] = "done"]).spc
            /\ queue' = Release(queue, spc).queue
            /\ holder' = Release(queue, spc).holder
            /\ sinceWrite' = 0
    /\ UNCHANGED <<force, openAtCall, slept>>
    /\ UNCHANGED <<lifecycle, reading, worker, cli>>

\* this.device!.write(...) throws, as it may on a port that is not open
\* any more: send() rejects, and a gated send leaves runExclusive, which
\* releases the mutex
writeThrows(i) ==
    /\ spc[i] = "sleeping"
    /\ CallbackReady
    /\ SleepOver(i)
    /\ port[device].state # "open"
    /\ IF force[i]
       THEN /\ spc' = [spc EXCEPT ![i] = "Write failed"]
            /\ UNCHANGED <<queue, holder>>
       ELSE /\ spc' = Release(queue, [spc EXCEPT ![i] = "Write failed"]).spc
            /\ queue' = Release(queue, spc).queue
            /\ holder' = Release(queue, spc).holder
    /\ UNCHANGED <<force, openAtCall, slept, writes, wroteClosed, sinceWrite>>
    /\ UNCHANGED <<lifecycle, reading, worker, cli>>

\* one clock tick passes
tick ==
    /\ slept' = [i \in SendIds |->
                   IF spc[i] = "sleeping" THEN Min(slept[i] + 1, PacketIntervalMs)
                   ELSE slept[i]]
    /\ sinceWrite' = Min(sinceWrite + 1, PacketIntervalMs)
    /\ UNCHANGED <<spc, force, openAtCall, queue, holder, writes, wroteClosed>>
    /\ UNCHANGED <<lifecycle, reading, worker, cli>>

\* ------------------------------------------------------------ dataReady
\* the port receives a chunk from the device and schedules a "readable"
\* notification
chunkArrives ==
    /\ arrived < MaxChunks
    /\ device # NoDevice /\ port[device].state = "open"
    /\ CallbackReady
    /\ arrived' = arrived + 1
    /\ rx' = Append(rx, arrived + 1)
    /\ readablePending' = TRUE
    /\ UNCHANGED <<draining, lastRead, decoded>>
    /\ UNCHANGED <<lifecycle, sending, worker, cli>>

\* _port.on("readable", () => { this.dataReady(); }): the notification is
\* delivered and dataReady() enters its loop
readable ==
    /\ readablePending
    /\ CallbackReady
    /\ readablePending' = FALSE
    /\ draining' = draining + 1
    /\ UNCHANGED <<arrived, rx, lastRead, decoded>>
    /\ UNCHANGED <<lifecycle, sending, worker, cli>>

\* (a dataReady() that returned after its first chunk)
AfterChunk_Break(d) == d - 1

\* while (true): after a chunk the loop goes round to the next read()
AfterChunk(d) == d

\* this.processRawPacket(result)
processRawPacket(dec, result) == Append(dec, result)

\* read() returns a chunk (result !== null): it is passed on, and the
\* loop goes on; the read may schedule the next notification of the port
readChunk(again) ==
    /\ draining > 0
    /\ rx # <<>>
    /\ lastRead' = "chunk"
    /\ rx' = Tail(rx)
    /\ decoded' = processRawPacket(decoded, Head(rx))
    /\ draining' = AfterChunk(draining)
    /\ readablePending' = (readablePending \/ again)
    /\ UNCHANGED arrived
    /\ UNCHANGED <<lifecycle, sending, worker, cli>>

\* read() returns null: else break
readNull ==
    /\ draining > 0
    /\ rx = <<>>
    /\ lastRead' = "null"
    /\ draining' = draining - 1
    /\ UNCHANGED <<arrived, rx, readablePending, decoded>>
    /\ UNCHANGED <<lifecycle, sending, worker, cli>>

\* read() throws: catch (_e) { break; }
readThrows ==
    /\ draining > 0
    /\ lastRead' = "throw"
    /\ draining' = draining - 1
    /\ UNCHANGED <<arrived, rx, readablePending, decoded>>
    /\ UNCHANGED <<lifecycle, sending, worker, cli>>

\* ------------------------------------------------------------ HTTP worker
\* The worker keeps one module-level client. Each connect request makes a
\* client instance of its own (initClient), here numbered like the request.
\* An instance goes through the session above in short: "opening" (its
\* connect() awaits serialOpenAsync), "open" (the port has opened, isOpen
\* is true: negotiation, then connected), "torn" (negotiation failed:
\* isOpen is false, the port is closing), "closing" (a close was requested
\* or the device went away: isOpen is still true), "closed", and "failed"
\* (the port did not open).
Requests == 1..MaxRequests

\* client?.isConnected()
clientIsConnected == client # 0 /\ inst[client] \in {"open", "closing"}

\* a connect request arrives: await readBodyJson(r, ConnectSchema)
httpConnect(r) ==
    /\ rpc[r] = "new"
    /\ rpc' = [rpc EXCEPT ![r] = "body"]
    /\ UNCHANGED <<client, inst>>
    /\ UNCHANGED <<lifecycle, sending, reading, cli>>

\* the body has been read: if (client?.isConnected()) throw new
\* RestError("Already connected", 400); client = initClient(...);
\* await client.connect(), which runs up to its serialOpenAsync
httpConnectRun(r) ==
    /\ rpc[r] = "body"
    /\ IF clientIsConnected
       THEN /\ rpc' = [rpc EXCEPT ![r] = "Already connected"]
            /\ UNCHANGED <<client, inst>>
       ELSE /\ client' = r
            /\ inst' = [inst EXCEPT ![r] = "opening"]
            /\ rpc' = [rpc EXCEPT ![r] = "connecting"]
    /\ UNCHANGED <<lifecycle, sending, reading, cli>>

\* the port of an instance opens: this.isOpen = true
instOpened(c) ==
    /\ inst[c] = "opening"
    /\ inst' = [inst EXCEPT ![c] = "open"]
    /\ UNCHANGED <<client, rpc>>
    /\ UNCHANGED <<lifecycle, sending, reading, cli>>

\* the port of an instance does not open: its connect() throws, and so
\* does the request
instOpenFailed(c) ==
    /\ inst[c] = "opening"
    /\ inst' = [inst EXCEPT ![c] = "failed"]
    /\ rpc' = [rpc EXCEPT ![c] = "failed"]
    /\ UNCHANGED client
    /\ UNCHANGED <<lifecycle, sending, reading, cli>>

\* negotiation and info fetch succeed: connect() returns, and the request
\* answers { message: "Connected" }
instConnected(c) ==
    /\ inst[c] = "open"
    /\ rpc[c] = "connecting"
    /\ rpc' = [rpc EXCEPT ![c] = "ok"]
    /\ UNCHANGED <<client, inst>>
    /\ UNCHANGED <<lifecycle, sending, reading, cli>>

\* negotiation or info fetch fails: the catch block of connect() sets
\* isOpen = false, closes the port and throws, and so does the request
instNegotiateFailed(c) ==
    /\ inst[c] \in {"open", "closing"}
    /\ rpc[c] = "connecting"
    /\ inst' = [inst EXCEPT ![c] = "torn"]
    /\ rpc' = [rpc EXCEPT ![c] = "failed"]
    /\ UNCHANGED client
    /\ UNCHANGED <<lifecycle, sending, reading, cli>>

\* the device of an instance goes away
instDeviceLost(c) ==
    /\ inst[c] = "open"
    /\ inst' = [inst EXCEPT ![c] = "closing"]
    /\ UNCHANGED <<client, rpc>>
    /\ UNCHANGED <<lifecycle, sending, reading, cli>>

\* the close of an instance's port completes: its close observer runs
instCloseNotify(c) ==
    /\ inst[c] \in {"torn", "closing"}
    /\ inst' = [inst EXCEPT ![c] = "closed"]
    /\ UNCHANGED <<client, rpc>>
    /\ UNCHANGED <<lifecycle, sending, reading, cli>>

\* a disconnect request: assertConnected(); await client!.disconnect();
\* client = null
httpDisconnect ==
    /\ clientIsConnected
    /\ inst' = [inst EXCEPT ![client] = IF @ = "open" THEN "closing" ELSE @]
    /\ client' = 0
    /\ UNCHANGED rpc
    /\ UNCHANGED <<lifecycle, sending, reading, cli>>

\* ------------------------------------------------------------ CLI commands
\* cliConnectAndPrintImageFile ("print") and cliFlashFirmware ("flash").
\* The options that decide the path of the print command: label-width and
\* label-height both set (sized), imageFit or imagePosition set (fitted),
\* and a print task given or detected (task).
Commands == {"print", "flash"}
PrintOptions == [sized : BOOLEAN, fitted : BOOLEAN, task : BOOLEAN]
NoOptions == [sized |-> FALSE, fitted |-> FALSE, task |-> FALSE]

\* the command starts: initClient(...); await client.connect()
cliStart(c, o) ==
    /\ kcmd = "none"
    /\ c = "flash" => o = NoOptions
    /\ kcmd' = c
    /\ kopts' = o
    /\ kpc' = "connecting"
    /\ UNCHANGED <<kerr, kstatus, kport, kdisconnects, kexit>>
    /\ UNCHANGED <<lifecycle, sending, reading, worker>>

\* an exception leaves the command outside of any try block
cliThrow(e) ==
    /\ kpc' = "ended"
    /\ kexit' = e
    /\ UNCHANGED <<kcmd, kopts, kerr, kstatus, kport, kdisconnects>>
    /\ UNCHANGED <<lifecycle, sending, reading, worker>>

\* await client.connect() rejects (connect() has torn its port down)
cliConnectFailed ==
    /\ kpc = "connecting"
    /\ cliThrow("connect failed")

\* await client.connect() returns: print goes on to loadImageFromFile,
\* flash stops the heartbeat, adds its listener and enters its try block
cliConnected ==
    /\ kpc = "connecting"
    /\ kport' = "open"
    /\ kpc' = IF kcmd = "print" THEN "loading" ELSE "upgrading"
    /\ UNCHANGED <<kcmd, kopts, kerr, kstatus, kdisconnects, kexit>>
    /\ UNCHANGED <<lifecycle, sending, reading, worker>>

\* the device goes away while the command runs
cliDeviceLost ==
    /\ kport = "open"
    /\ kexit = "running"
    /\ kport' = "closing"
    /\ UNCHANGED <<kcmd, kopts, kpc, kerr, kstatus, kdisconnects, kexit>>
    /\ UNCHANGED <<lifecycle, sending, reading, worker>>

\* await loadImageFromFile(path) rejects
cliLoadFailed ==
    /\ kpc = "loading"
    /\ cliThrow("load failed")

\* await loadImageFromFile(path) returns; the image is resized, or
\* throw new InvalidArgumentError("label-width and label-height must be
\* set"); then await ImageEncoder.encodeImage(...)
cliLoaded ==
    /\ kpc = "loading"
    /\ IF ~kopts.sized /\ kopts.fitted
       THEN cliThrow("InvalidArgumentError")
       ELSE /\ kpc' = "encoding"
            /\ UNCHANGED <<kcmd, kopts, kerr, kstatus, kport, kdisconnects, kexit>>
            /\ UNCHANGED <<lifecycle, sending, reading, worker>>

\* await ImageEncoder.encodeImage(...) rejects
cliEncodeFailed ==
    /\ kpc = "encoding"
    /\ cliThrow("encode failed")

\* await ImageEncoder.encodeImage(...) returns; if (printTask ===
\* undefined) throw new Error("Unable to detect print task, ..."); then
\* let status = 1; try { await printImage(...)
cliEncoded ==
    /\ kpc = "encoding"
    /\ IF ~kopts.task
       THEN cliThrow("Unable to detect print task")
       ELSE /\ kpc' = "printInit"
            /\ kstatus' = 1
            /\ UNCHANGED <<kcmd, kopts, kerr, kport, kdisconnects, kexit>>
            /\ UNCHANGED <<lifecycle, sending, reading, worker>>

\* printImage: try { await printTask.printInit(); await
\* printTask.printPage(...); await printTask.waitForFinished(); }
PrintSteps == <<"printInit", "printPage", "waitForFinished", "printEnd">>

printStepDone(k) ==
    /\ kpc = PrintSteps[k]
    /\ kpc' = PrintSteps[k + 1]
    /\ UNCHANGED <<kcmd, kopts, kerr, kstatus, kport, kdisconnects, kexit>>
    /\ UNCHANGED <<lifecycle, sending, reading, worker>>

\* one of them rejects: finally { await printTask.printEnd(); }
printStepFailed(k) ==
    /\ kpc = PrintSteps[k]
    /\ kpc' = "printEnd"
    /\ kerr' = "print failed"
    /\ UNCHANGED <<kcmd, kopts, kstatus, kport, kdisconnects, kexit>>
    /\ UNCHANGED <<lifecycle, sending, reading, worker>>

\* printEnd() returns: printImage returns (status = 0) or throws the
\* error of its try block; either way the command enters its finally
printEnded ==
    /\ kpc = "printEnd"
    /\ kpc' = "finally"
    /\ kstatus' = IF kerr = NoResult THEN 0 ELSE kstatus
    /\ UNCHANGED <<kcmd, kopts, kerr, kport, kdisconnects, kexit>>
    /\ UNCHANGED <<lifecycle, sending, reading, worker>>

\* printEnd() rejects: printImage throws that error
printEndFailed ==
    /\ kpc = "printEnd"
    /\ kpc' = "finally"
    /\ kerr' = "printEnd failed"
    /\ UNCHANGED <<kcmd, kopts, kstatus, kport, kdisconnects, kexit>>
    /\ UNCHANGED <<lifecycle, sending, reading, worker>>

\* await client.abstraction.firmwareUpgrade(...) returns
upgraded ==
    /\ kpc = "upgrading"
    /\ kpc' = "finally"
    /\ UNCHANGED <<kcmd, kopts, kerr, kstatus, kport, kdisconnects, kexit>>
    /\ UNCHANGED <<lifecycle, sending, reading, worker>>

\* await client.abstraction.firmwareUpgrade(...) rejects
upgradeFailed ==
    /\ kpc = "upgrading"
    /\ kpc' = "finally"
    /\ kerr' = "upgrade failed"
    /\ UNCHANGED <<kcmd, kopts, kstatus, kport, kdisconnects, kexit>>
    /\ UNCHANGED <<lifecycle, sending, reading, worker>>

\* finally { ...; await client.disconnect(); }
cliDisconnect(n) == n + 1

\* the finally block of either command, then process.exit(status),
\* process.exit(0), or the error of the try block goes on up
cliFinally ==
    /\ kpc = "finally"
    /\ kdisconnects' = cliDisconnect(kdisconnects)
    /\ kport' = IF kdisconnects' > kdisconnects /\ kport = "open" THEN "closing" ELSE kport
    /\ kpc' = "ended"
    /\ kexit' = IF kerr # NoResult THEN kerr
                ELSE IF kcmd = "print" /\ kstatus = 1 THEN "exit 1"
                ELSE "exit 0"
    /\ UNCHANGED <<kcmd, kopts, kerr, kstatus>>
    /\ UNCHANGED <<lifecycle, sending, reading, worker>>

\* ------------------------------------------------------------ specification
\* the session once a port name is set (setPort cannot unset it)
Session ==
    \/ \E p \in Ports : setPort(p)
    \/ disconnectCall
    \/ disconnectReturn
    \/ \E h \in Handles : deviceLost(h)
    \/ \E h \in Handles : closeNotify(h)
    \/ connectCall
    \/ serialOpenAsync
    \/ openFailed
    \/ opened
    \/ \E r \in NegotiateResults : negotiated(r)
    \/ negotiateFailed
    \/ fetchFailed
    \/ connectThrow
    \/ connected

Lifecycle ==
    \/ Session
    \/ connectPortNotSet
    \/ startHeartbeat
    \/ heartbeatFailed

Sending ==
    \/ sendRawForce
    \/ sendRawGated
    \/ \E i \in SendIds : written(i)
    \/ tick

\* the session alone
Next == Lifecycle
Spec == Init /\ [][Next]_vars

\* a client whose first connect() has just succeeded
Connected ==
    /\ portName \in Ports
    /\ device = 1
    /\ isOpen = TRUE
    /\ port = [h \in Handles |->
                 IF h = 1 THEN [state |-> "open", path |-> portName]
                 ELSE [state |-> "none", path |-> NoPort]]
    /\ cpc = "idle"
    /\ chandle = NoDevice
    /\ cerr = NoResult
    /\ cres = "ok"
    /\ connectResult \in NegotiateResults
    /\ connectEvents = <<ConnectionInfo>>
    /\ disconnectEvents = [h \in Handles |-> 0]
    /\ dpc = "idle"
    /\ heartbeat = FALSE

NoSends ==
    /\ spc = [i \in SendIds |-> "new"]
    /\ force = [i \in SendIds |-> FALSE]
    /\ openAtCall = [i \in SendIds |-> FALSE]
    /\ slept = [i \in SendIds |-> 0]
    /\ queue = <<>>
    /\ holder = 0
    /\ writes = <<>>
    /\ wroteClosed = [i \in SendIds |-> FALSE]
    /\ sinceWrite = PacketIntervalMs

NoCli ==
    /\ kcmd = "none"
    /\ kopts = [sized |-> FALSE, fitted |-> FALSE, task |-> FALSE]
    /\ kpc = "idle"
    /\ kerr = NoResult
    /\ kstatus = 1
    /\ kport = "none"
    /\ kdisconnects = 0
    /\ kexit = "running"

NoWorker ==
    /\ client = 0
    /\ inst = [c \in 1..MaxRequests |-> "none"]
    /\ rpc = [r \in 1..MaxRequests |-> "new"]

NoReads ==
    /\ arrived = 0
    /\ rx = <<>>
    /\ readablePending = FALSE
    /\ draining = 0
    /\ lastRead = "none"
    /\ decoded = <<>>

\* sendRaw() calls on a connected client, which the device or a caller may
\* disconnect at any time
GateInit == Connected /\ NoSends /\ NoReads /\ NoWorker /\ NoCli
GateNext ==
    \/ disconnectCall
    \/ disconnectReturn
    \/ \E h \in Handles : deviceLost(h)
    \/ \E h \in Handles : closeNotify(h)
    \/ Sending
    \/ \E i \in SendIds : writeThrows(i)
GateSpec == GateInit /\ [][GateNext]_vars

\* the same, with the event loop at work: time passes, an awaited promise
\* that has resolved is resumed, and a timer that has expired gets its
\* turn between the callers' calls (these hold it up only for the length
\* of a microtask, again and again)
GateFairSpec ==
    /\ GateInit /\ [][GateNext]_vars
    /\ WF_vars(tick)
    /\ WF_vars(disconnectReturn)
    /\ \A i \in SendIds : SF_vars(written(i) \/ writeThrows(i))

\* the read side of a connected client, which the device or a caller may
\* disconnect at any time
ReadInit == Connected /\ NoSends /\ NoReads /\ NoWorker /\ NoCli
ReadNext ==
    \/ chunkArrives
    \/ readable
    \/ \E again \in BOOLEAN : readChunk(again)
    \/ readNull
    \/ readThrows
    \/ disconnectCall
    \/ disconnectReturn
    \/ \E h \in Handles : deviceLost(h)
    \/ \E h \in Handles : closeNotify(h)
ReadSpec == ReadInit /\ [][ReadNext]_vars

\* the HTTP worker under connect and disconnect requests
WorkerNext ==
    \/ \E r \in Requests : httpConnect(r)
    \/ \E r \in Requests : httpConnectRun(r)
    \/ \E c \in Requests : instOpened(c)
    \/ \E c \in Requests : instOpenFailed(c)
    \/ \E c \in Requests : instConnected(c)
    \/ \E c \in Requests : instNegotiateFailed(c)
    \/ \E c \in Requests : instDeviceLost(c)
    \/ \E c \in Requests : instCloseNotify(c)
    \/ httpDisconnect
WorkerSpec == Init /\ [][WorkerNext]_vars

\* one run of a CLI command
CliNext ==
    \/ \E c \in Commands, o \in PrintOptions : cliStart(c, o)
    \/ cliConnectFailed
    \/ cliConnected
    \/ cliDeviceLost
    \/ cliLoadFailed
    \/ cliLoaded
    \/ cliEncodeFailed
    \/ cliEncoded
    \/ \E k \in 1..3 : printStepDone(k)
    \/ \E k \in 1..3 : printStepFailed(k)
    \/ printEnded
    \/ printEndFailed
    \/ upgraded
    \/ upgradeFailed
    \/ cliFinally
CliSpec == Init /\ [][CliNext]_vars

\* sendRaw() calls on a client that is disconnected and connected again
SendInit == Connected /\ NoSends /\ NoReads /\ NoWorker /\ NoCli
SendNext == Session \/ Sending
SendSpec == SendInit /\ [][SendNext]_vars

\* ------------------------------------------------------------ helpers
Gated(i) == spc[i] # "new" /\ ~force[i]
Forced(i) == spc[i] # "new" /\ force[i]
Live == {h \in Handles : port[h].state \in {"open", "closing"}}
ConnectFailed == cpc = "idle" /\ cres \in {"Handshake failed", "Info fetch failed"}

\* ------------------------------------------------------------ C1
\* C1: gated sendRaw() calls reach the transport in the order they were
\* issued: of two gated calls that both write, the one issued first writes
\* first.
C1_GatedWritesFifo ==
    \A a, b \in 1..Len(writes) :
        (a < b /\ ~force[writes[a]] /\ ~force[writes[b]]) => writes[a] < writes[b]

\* two gated calls were waiting on the mutex together and both have written
C1_Witness ==
    /\ Len(writes) >= 2
    /\ \E a, b \in 1..Len(writes) :
          a < b /\ ~force[writes[a]] /\ ~force[writes[b]]

\* ------------------------------------------------------------ C2
\* C2: a sendRaw() call issued while isConnected() is false never writes
\* to the transport (it fails with "Not connected").
C2_NotConnectedNeverWrites ==
    \A k \in 1..Len(writes) : openAtCall[writes[k]]

\* ------------------------------------------------------------ C3
\* C3: the client never has more than one transport handle that is not
\* fully closed: the earlier handle's close notification has fired before
\* the next handle is open.
C3_OneLiveHandle == Cardinality(Live) <= 1

\* ------------------------------------------------------------ C4
\* C4: when initialNegotiate() or fetchPrinterInfo() rejects, connect()
\* rejects with that same error, emits no connect event, and from the
\* catch block on isConnected() is false and the close of the handle this
\* connect() opened has been requested (the handle is closing or closed).
C4_TornDown ==
    (cpc = "rethrow" \/ ConnectFailed) =>
        /\ ~isOpen
        /\ device # NoDevice
        /\ port[device].state \in {"closing", "closed"}

C4_Rejects ==
    /\ (cpc = "negotiating" /\ cpc' = "rethrow") => cerr' = "Handshake failed"
    /\ (cpc = "fetching" /\ cpc' = "rethrow") => cerr' = "Info fetch failed"
    /\ (cpc = "rethrow" /\ cpc' = "idle") => cres' = cerr
    /\ (cpc' = "rethrow" \/ cpc = "rethrow") => connectEvents' = connectEvents

C4_FailedConnectTearsDown == [](C4_TornDown) /\ [][C4_Rejects]_vars

\* a connect() whose info fetch failed has rejected and its handle is closed
C4_Witness ==
    /\ ConnectFailed
    /\ cres = "Info fetch failed"
    /\ port[device].state = "closed"

\* ------------------------------------------------------------ C5
\* C5: when a disconnect() call returns, isConnected() is false.
C5_FalseAfterDisconnect == [][(dpc = "called" /\ dpc' = "idle") => ~isOpen']_vars

\* ------------------------------------------------------------ C6
\* C6: every transport handle that has closed, by disconnect() or by the
\* device, has produced exactly one disconnect event, and a handle that has
\* not closed has produced none, however often disconnect() was called.
C6_OneDisconnectPerClose ==
    \A h \in Handles :
        disconnectEvents[h] = IF port[h].state = "closed" THEN 1 ELSE 0

\* two handles have closed, each with its one event
C6_Witness ==
    /\ \A h \in {1, 2} : port[h].state = "closed" /\ disconnectEvents[h] = 1
    /\ dpc = "called"

\* ------------------------------------------------------------ C7
\* C7: when connect() returns successfully, isConnected() is true and this
\* call has emitted exactly one connect event, carrying the label
\* "Serial (<port>)" and the negotiation result code.
C7_ConnectedOnReturn ==
    [][(cpc = "fetching" /\ cpc' = "idle" /\ cres' = "ok") =>
          /\ isOpen'
          /\ connectEvents' = Append(connectEvents, ConnectionInfo)]_vars

\* ------------------------------------------------------------ C8
\* C8 as stated: isConnected() is false while the transport is being
\* opened and while negotiation and info fetch are in progress.
C8_FalseUntilConnected ==
    cpc \in {"disconnecting", "opening", "negotiating", "fetching"} => ~isOpen

\* C8, amended: isConnected() is true only while the session holds a
\* transport handle that has opened and whose close notification has not
\* fired; it is false before the first transport has opened, and it is set
\* to true in the step in which the transport opens, before negotiation.
C8_TrueOnlyWithTransport ==
    isOpen => (device # NoDevice /\ port[device].state \in {"open", "closing"})

C8_TrueFromOpen == (cpc = "opening" /\ cpc' = "negotiating") => isOpen'

C8_TrueOnceOpened == [](C8_TrueOnlyWithTransport) /\ [][C8_TrueFromOpen]_vars

\* negotiation is in progress and isConnected() is already true
C8_Witness == cpc = "negotiating" /\ isOpen /\ connectEvents = <<>>

\* ------------------------------------------------------------ C9
\* C9 as stated: a sendRaw() with force set writes at once: it is never
\* found waiting between the call and the write.
C9_ForceWritesAtOnce ==
    \A i \in SendIds : Forced(i) => spc[i] \in {"done", "Not connected"}

\* C9, amended: a sendRaw() with force set skips the exclusive gate only:
\* it never waits on the mutex nor holds it, and it still sleeps a full
\* packetIntervalMs between the call and the write.
C9_ForceOutsideGate ==
    \A i \in SendIds :
        Forced(i) => (spc[i] # "queued" /\ holder # i /\ Without(queue, i) = queue)

C9_ForceSleeps ==
    \A i \in SendIds :
        (force[i] /\ spc[i] = "sleeping" /\ spc'[i] = "done") =>
            slept[i] >= PacketIntervalMs

C9_ForceSkipsGateOnly == [](C9_ForceOutsideGate) /\ [][C9_ForceSleeps]_vars

\* a forced call has written while an earlier gated call still holds the gate
C9_Witness ==
    \E i \in SendIds :
        /\ force[i] /\ spc[i] = "done"
        /\ holder # 0 /\ holder < i /\ spc[holder] = "sleeping"

\* ------------------------------------------------------------ C10
\* C10: at most one gated send is in its delay or write phase at any time,
\* and a gated write happens only when at least packetIntervalMs has passed
\* since the previous gated write.
C10_OneInFlight ==
    /\ Cardinality({i \in SendIds : Gated(i) /\ spc[i] = "sleeping"}) <= 1
    /\ \A i \in SendIds : (Gated(i) /\ spc[i] = "sleeping") => holder = i

C10_Spaced ==
    \A i \in SendIds :
        (~force[i] /\ spc[i] = "sleeping" /\ spc'[i] = "done") =>
            sinceWrite >= PacketIntervalMs

C10_OneAtATimeSpaced == [](C10_OneInFlight) /\ [][C10_Spaced]_vars

\* the second of two gated writes has just happened
C10_Witness ==
    /\ \A i \in {1, 2} : ~force[i] /\ spc[i] = "done"
    /\ sinceWrite = 0

\* ------------------------------------------------------------ C11
\* C11: disconnect() stops the heartbeat and requests the close of an open
\* transport; called on a client that never connected, or again when the
\* handle is closing or closed, it changes nothing else: no port changes
\* state, no disconnect event follows from it, and isConnected() is false
\* on a client without a device or with a closed one.
DisconnectRuns ==
    \/ dpc = "idle" /\ dpc' = "called"
    \/ cpc = "idle" /\ cpc' = "disconnecting"
    \/ cpc # "rethrow" /\ cpc' = "rethrow"
    \/ heartbeat /\ ~heartbeat'

C11_StopsAndCloses ==
    DisconnectRuns =>
        /\ ~heartbeat'
        /\ \A h \in Handles : port'[h].state # port[h].state =>
               (h = device /\ port[h].state = "open" /\ port'[h].state = "closing")
        /\ (device # NoDevice /\ port[device].state = "open") =>
               port'[device].state = "closing"
        /\ cpc' # "rethrow" => isOpen' = isOpen
        /\ device' = device
        /\ disconnectEvents' = disconnectEvents

C11_Disconnected ==
    /\ (device = NoDevice \/ port[device].state = "closed") => ~isOpen
    /\ \A h \in Handles : disconnectEvents[h] <= 1

NeverOpened == \A h \in Handles : port[h].state \in {"none", "opening", "failed"}

C12_OpenFails ==
    (cpc = "opening" /\ cpc' = "idle") =>
        /\ cres' = "Open failed"
        /\ port'[chandle].state = "failed"
        /\ isOpen' = isOpen
        /\ device' = device
        /\ connectEvents' = connectEvents
        /\ disconnectEvents' = disconnectEvents

C12_NoObservers ==
    /\ \A h \in Handles :
          port[h].state = "failed" => (device # h /\ disconnectEvents[h] = 0)
    /\ NeverOpened => (~isOpen /\ connectEvents = <<>> /\ device = NoDevice)

C12_OpenFailureLeavesSession == [](C12_NoObservers) /\ [][C12_OpenFails]_vars

\* the first connect() of a client has failed to open its port
C12_Witness ==
    /\ cpc = "idle"
    /\ cres = "Open failed"
    /\ port[1].state = "failed"
    /\ NeverOpened
    /\ ~isOpen

\* ------------------------------------------------------------ C13
\* C13: the not-connected check of a gated sendRaw() comes before the
\* gate: a gated call issued while isConnected() is false has failed with
\* "Not connected" at once, and is never found waiting on the mutex.
C13_CheckBeforeGate ==
    \A i \in SendIds :
        (Gated(i) /\ ~openAtCall[i]) =>
            (spc[i] = "Not connected" /\ i \notin Waiting(queue))

\* ------------------------------------------------------------ C14
\* C14: a sendRaw() that is outstanding when the session is disconnected
\* fails and performs no write on the closed transport: no call completes
\* with a write to a port whose close notification had fired.
C14_NoWriteOnClosed ==
    \A i \in SendIds : spc[i] = "done" => ~wroteClosed[i]

\* ------------------------------------------------------------ C15
\* C15: a gated sendRaw() that fails inside the gate ("Not connected", or
\* the write throws) releases the gate: the mutex is held only by a call
\* that is sleeping before its write, and every call that waits on the
\* mutex eventually leaves it and ends, with its write or with an error.
Ended == {"done", "Not connected", "Write failed"}

C15_HolderIsLive ==
    /\ holder # 0 => (spc[holder] = "sleeping" /\ ~force[holder])
    /\ queue # <<>> => holder # 0
    /\ \A i \in SendIds : spc[i] = "queued" <=> i \in Waiting(queue)

C15_NoSendWaitsForever ==
    /\ [](C15_HolderIsLive)
    /\ \A i \in SendIds : (spc[i] = "queued") ~> (spc[i] \in Ended)

\* the write of the first gated call threw, and the second, which was
\* issued on a connected client and waited behind it, has ended
C15_Witness ==
    /\ ~force[1] /\ spc[1] = "Write failed"
    /\ ~force[2] /\ openAtCall[2] /\ spc[2] = "Not connected"

\* ------------------------------------------------------------ C16
\* C16: at most one dataReady() drain loop is under way at any time: a
\* "readable" notification that is scheduled while a drain is under way
\* starts its own drain only after that one has returned.
C16_OneDrain == draining <= 1

C16_StartsWhenIdle == (draining' > draining) => draining = 0

C16_NoConcurrentDrain == [](C16_OneDrain) /\ [][C16_StartsWhenIdle]_vars

\* a notification has been scheduled while a drain is under way
C16_Witness == draining = 1 /\ readablePending /\ lastRead = "chunk"

\* ------------------------------------------------------------ C17
\* C17: a drain reads until read() returns null or throws; every chunk
\* read is passed to processRawPacket in the step that read it, so the
\* chunks passed on followed by the chunks still buffered are the chunks
\* that arrived, in order; a read that throws ends the drain and changes
\* neither isConnected() nor the device nor any port.
RECURSIVE UpTo(_)
UpTo(n) == IF n = 0 THEN <<>> ELSE Append(UpTo(n - 1), n)

C17_InOrder == decoded \o rx = UpTo(arrived)

C17_DrainStep ==
    /\ (draining' < draining) =>
          /\ lastRead' \in {"null", "throw"}
          /\ lastRead' = "null" => rx = <<>>
          /\ decoded' = decoded /\ rx' = rx
          /\ isOpen' = isOpen /\ device' = device /\ port' = port
    /\ (rx' # rx /\ arrived' = arrived) =>
          /\ draining > 0
          /\ decoded' = Append(decoded, Head(rx))

C17_DrainsInOrder == [](C17_InOrder) /\ [][C17_DrainStep]_vars

\* a drain passed on two chunks and ended on a read that threw, with a
\* third chunk still buffered, on a client that is still connected
C17_Witness ==
    /\ decoded = <<1, 2>>
    /\ rx = <<3>>
    /\ lastRead = "throw"
    /\ draining = 0
    /\ isOpen

\* ------------------------------------------------------------ C18
\* C18: the close notification of an earlier handle never changes the
\* status of a later session: once a later connect() has made a new handle
\* the device, the close of any other handle leaves isConnected() as it is.
C18_StaleCloseIgnored ==
    [][\A h \in Handles :
          (port[h].state = "closing" /\ port'[h].state = "closed" /\ h # device)
              => isOpen' = isOpen]_vars

\* ------------------------------------------------------------ C19
\* C19: in the HTTP worker at most one client instance has an open
\* transport, and it is the one the module-level client refers to; and a
\* connect request that finds the client connected is rejected with
\* "Already connected" and leaves client as it is.
C19_OpenIsClient ==
    /\ Cardinality({c \in Requests : inst[c] = "open"}) <= 1
    /\ \A c \in Requests : inst[c] = "open" => client = c

C19_Rejects ==
    \A r \in Requests :
        (rpc[r] = "body" /\ rpc'[r] # "body" /\ clientIsConnected) =>
            (rpc'[r] = "Already connected" /\ client' = client)

C19_OneReachableClient == [](C19_OpenIsClient) /\ [][C19_Rejects]_vars

\* ------------------------------------------------------------ C20
\* C20: the connect and disconnect events of a client alternate, starting
\* with connect: a connect event is emitted only when as many disconnect
\* events as connect events have been emitted before, and a disconnect
\* event only when one connect event more (so none for a connect() that
\* failed).
RECURSIVE Total(_, _)
Total(ev, n) == IF n = 0 THEN 0 ELSE ev[n] + Total(ev, n - 1)

C20_EventsAlternate ==
    [][/\ Len(connectEvents') > Len(connectEvents) =>
            Len(connectEvents) = Total(disconnectEvents, MaxHandles)
       /\ Total(disconnectEvents', MaxHandles) > Total(disconnectEvents, MaxHandles) =>
            Len(connectEvents) = Total(disconnectEvents, MaxHandles) + 1]_vars

\* ------------------------------------------------------------ C21
\* C21: a CLI command (print or flash) whose client.connect() succeeded
\* has called client.disconnect() by the time it ends, however it ends,
\* and does not leave the transport open.
ConnectSucceeded == kport # "none"

C21_DisconnectsOnExit ==
    (kexit # "running" /\ ConnectSucceeded) =>
        (kdisconnects >= 1 /\ kport # "open")

\* the same for the flash command alone
C21_FlashDisconnectsOnExit ==
    (kcmd = "flash" /\ kexit # "running" /\ ConnectSucceeded) =>
        (kdisconnects >= 1 /\ kport # "open")

====
